---- MODULE Spec2Model ----
(***************************************************************************)
(* Model of s3car_config.py (vlouf/comrad): the radar site configuration   *)
(* pipeline.  check_update fetches siteinfo.txt and swaps the cache file,  *)
(* main parses the two sections, joins them and writes the CSV table, and  *)
(* get_frequency_band classifies a wavelength into an IEEE radar band.     *)
(*                                                                         *)
(* Text is modelled as TLA+ strings (sequences of characters), files as    *)
(* records holding their bytes and their modification time, numbers as     *)
(* exact rationals n/d (IEEE double rounding is not modelled).             *)
(***************************************************************************)
EXTENDS Integers, Sequences, FiniteSets, TLC

VARIABLES
    \* the file system and the clock
    cache,       \* SITE_INFO_FILE (siteinfo.txt): NoFile or [data, mtime]
    tmp,         \* tmp_test.txt: NoFile or [data, mtime]
    output,      \* OUTPUT_FILE (radar_site_list.csv): NoFile or [table]
    now,         \* the clock that stamps st_mtime, in ticks of its granularity
    \* check_update
    fetched,     \* content: the decoded body of the response (line 73)
    updated,     \* the local flag of lines 87-89
    changed,     \* what check_update returned to main: None, TRUE or FALSE
    \* main
    content,     \* the text read from the cache file (line 112)
    radar_site,  \* CSV lines of the site section, header first
    radar_type,  \* CSV lines of the type section, header first
    dfsite,      \* the site table (line 162)
    dftype,      \* the type table (line 163)
    df,          \* the joined table (lines 166-173)
    pc,          \* position of the run
    result,      \* how the last run ended: None, [ok] or [raises, at]
    \* get_frequency_band called on its own
    wavelength,  \* its argument
    band,        \* its outcome: None, [band] or [raises]
    \* history of the current run, read by the properties only
    cache0,      \* the cache file when the run started
    output0,     \* the output file when the run started
    cu           \* check_update in this run: "none", "running", "returned", "raised"

fsVars   == <<cache, tmp, output, now>>
cuVars   == <<fetched, updated, changed>>
mainVars == <<content, radar_site, radar_type, dfsite, dftype, df>>
bandVars == <<wavelength, band>>
histVars == <<cache0, output0, cu>>
vars     == <<fsVars, cuVars, mainVars, bandVars, histVars, pc, result>>

None == [none |-> TRUE]

(***************************************************************************)
(* String helpers: the str methods and regular expressions the code uses.  *)
(***************************************************************************)

\* str.startswith
startswith(s, p) == Len(s) >= Len(p) /\ SubSeq(s, 1, Len(p)) = p

\* the character of s at position i
char(s, i) == SubSeq(s, i, i)

\* str.lstrip (the only whitespace inside a line of the modelled text is " ")
lstrip(s) ==
    LET kept == {i \in 1..Len(s) : char(s, i) # " "}
    IN  IF kept = {} THEN ""
        ELSE SubSeq(s, CHOOSE i \in kept : \A j \in kept : i <= j, Len(s))

\* re.sub(" +", ",", s): every maximal run of spaces becomes one comma, that is, the
\* first space of a run becomes a comma and the others go. Positions lo..hi of s.
RECURSIVE sub_spaces_in(_, _, _)
sub_spaces_in(s, lo, hi) ==
    IF lo > hi THEN ""
    ELSE IF lo = hi THEN
        (IF char(s, lo) # " " THEN char(s, lo)
         ELSE IF lo > 1 /\ char(s, lo - 1) = " " THEN "" ELSE ",")
    ELSE sub_spaces_in(s, lo, (lo + hi) \div 2) \o sub_spaces_in(s, (lo + hi) \div 2 + 1, hi)

sub_spaces(s) == sub_spaces_in(s, 1, Len(s))

\* s with every occurrence of the character old replaced by new. Positions lo..hi.
RECURSIVE replace_in(_, _, _, _, _)
replace_in(s, old, new, lo, hi) ==
    IF lo > hi THEN ""
    ELSE IF lo = hi THEN (IF char(s, lo) = old THEN new ELSE char(s, lo))
    ELSE replace_in(s, old, new, lo, (lo + hi) \div 2)
         \o replace_in(s, old, new, (lo + hi) \div 2 + 1, hi)

\* re.sub("_+", "", s): every run of underscores is removed
sub_underscores(s) == replace_in(s, "_", "", 1, Len(s))

\* str.replace("_", "")
replace_underscore(s) == replace_in(s, "_", "", 1, Len(s))

\* str.replace(" ", ",") of the header literals
replace_space(s) == replace_in(s, " ", ",", 1, Len(s))

\* str.splitlines: the lines of s, split at "\n", no empty last line.  A line ends
\* before each "\n", and at the end of a text that does not end with "\n".
splitlines(s) ==
    LET n == Len(s)
        ends == {i \in 1..n : char(s, i) = "\n"}
                \cup (IF n > 0 /\ char(s, n) # "\n" THEN {n + 1} ELSE {})
        end_of(k) == CHOOSE e \in ends : Cardinality({x \in ends : x < e}) = k - 1
        start_of(k) == IF k = 1 THEN 1 ELSE end_of(k - 1) + 1
    IN  [k \in 1..Cardinality(ends) |-> SubSeq(s, start_of(k), end_of(k) - 1)]

\* str.split(sep) for a one-character separator: the pieces between the separators
split(s, sep) ==
    LET n == Len(s)
        ends == {i \in 1..n : char(s, i) = sep} \cup {n + 1}
        end_of(k) == CHOOSE e \in ends : Cardinality({x \in ends : x < e}) = k - 1
        start_of(k) == IF k = 1 THEN 1 ELSE end_of(k - 1) + 1
    IN  [k \in 1..Cardinality(ends) |-> SubSeq(s, start_of(k), end_of(k) - 1)]

(***************************************************************************)
(* Numbers.  A number is the exact rational [n, d] with d > 0; NaN is the  *)
(* float nan pandas puts in a cell without a value.                        *)
(***************************************************************************)

NaN == [nan |-> TRUE]

IsNaN(x) == "nan" \in DOMAIN x
IsNum(x) == "n" \in DOMAIN x
IsStr(x) == "str" \in DOMAIN x

Num(n, d) == [n |-> n, d |-> d]

\* x >= k and x <= k for a number x and an integer k; every comparison with nan is False
num_ge(x, k) == IsNum(x) /\ x.n >= k * x.d
num_le(x, k) == IsNum(x) /\ x.n <= k * x.d

(***************************************************************************)
(* get_frequency_band, lines 25-59.                                        *)
(***************************************************************************)

\* lines 41-51: name, freq min, freq max
ieee_freq_band_ghz ==
    << <<"L", 1, 2>>, <<"S", 2, 4>>, <<"C", 4, 8>>, <<"X", 8, 12>>, <<"Ku", 12, 18>>,
       <<"K", 18, 27>>, <<"Ka", 27, 40>>, <<"V", 40, 75>>, <<"W", 75, 110>> >>

\* line 55 with the lower bound made exclusive
band_matches_exclusive_min(ghz, row) ==
    IsNum(ghz) /\ ghz.n > row[2] * ghz.d /\ num_le(ghz, row[3])

\* line 55: the test of one row of the table
band_matches(ghz, row) == num_ge(ghz, row[2]) /\ num_le(ghz, row[3])

\* lines 54-59: the first row that matches, or the ValueError
RECURSIVE band_lookup(_, _)
band_lookup(ghz, i) ==
    IF i > Len(ieee_freq_band_ghz) THEN [raises |-> "ValueError"]
    ELSE IF band_matches(ghz, ieee_freq_band_ghz[i]) THEN [band |-> ieee_freq_band_ghz[i][1]]
    ELSE band_lookup(ghz, i + 1)

\* line 53: 1e-9 * 300_000_000 / (wavelength * 1e-2) = 30 / wavelength, for a number
\* other than zero, with the denominator kept positive. The value is exact; the
\* code's doubles round (1e-9 * 300_000_000 is 0.30000000000000004), so the double
\* whose computed ghz is exactly 2.0 is 15.000000000000002, not 15.0: a wavelength
\* n/d of the model stands for the argument whose computed ghz is 30d/n.
ghz_of(w) ==
    IF IsNaN(w) THEN NaN
    ELSE IF w.n > 0 THEN Num(30 * w.d, w.n)
    ELSE Num(-30 * w.d, -w.n)

\* lines 53-59. The argument is a float, as main passes it: a number or nan. The
\* float division by zero of line 53 is a ZeroDivisionError.
get_frequency_band(w) ==
    IF IsNum(w) /\ w.n = 0 THEN [raises |-> "ZeroDivisionError"]
    ELSE band_lookup(ghz_of(w), 1)

(***************************************************************************)
(* Block parser: the two passes of main over the lines of the text.        *)
(***************************************************************************)

SITE_HEADER == replace_space("id short_name site_lat site_lon site_alt type typetext SitesDB_ID")
TYPE_HEADER == replace_space("type typetext wavelength beamwidth Vbeamwidth")

\* The loop of lines 117-134 with the break of line 129 left out: the scan goes on
\* after the end marker
RECURSIVE site_loop_without_break(_, _, _, _)
site_loop_without_break(lines, i, read, acc) ==
    IF i > Len(lines) THEN acc
    ELSE LET c == lines[i] IN
        IF Len(c) <= 1 THEN site_loop_without_break(lines, i + 1, read, acc)
        ELSE IF startswith(c, "#") THEN site_loop_without_break(lines, i + 1, read, acc)
        ELSE IF startswith(lstrip(c), "0 ")
             THEN site_loop_without_break(lines, i + 1, read, acc)
        ELSE IF startswith(c, "RADAR SITE DATA")
             THEN site_loop_without_break(lines, i + 1, TRUE, acc)
        ELSE IF startswith(c, "END RADAR SITE DATA")
             THEN site_loop_without_break(lines, i + 1, FALSE, acc)
        ELSE LET line == sub_underscores(sub_spaces(lstrip(c))) IN
            site_loop_without_break(lines, i + 1, read,
                                    IF read THEN Append(acc, line) ELSE acc)

\* The loop of lines 117-134: i is the line scanned, read the flag, acc radar_site.
RECURSIVE site_loop(_, _, _, _)
site_loop(lines, i, read, acc) ==
    IF i > Len(lines) THEN acc
    ELSE LET c == lines[i] IN
        IF Len(c) <= 1 THEN site_loop(lines, i + 1, read, acc)
        ELSE IF startswith(c, "#") THEN site_loop(lines, i + 1, read, acc)
        ELSE IF startswith(lstrip(c), "0 ") THEN site_loop(lines, i + 1, read, acc)
        ELSE IF startswith(c, "RADAR SITE DATA") THEN site_loop(lines, i + 1, TRUE, acc)
        ELSE IF startswith(c, "END RADAR SITE DATA") THEN acc
        ELSE LET line == sub_underscores(sub_spaces(lstrip(c))) IN
            site_loop(lines, i + 1, read, IF read THEN Append(acc, line) ELSE acc)

\* The loop of lines 141-157.
RECURSIVE type_loop(_, _, _, _)
type_loop(lines, i, read, acc) ==
    IF i > Len(lines) THEN acc
    ELSE LET c == lines[i] IN
        IF Len(c) <= 1 THEN type_loop(lines, i + 1, read, acc)
        ELSE IF startswith(c, "#") THEN type_loop(lines, i + 1, read, acc)
        ELSE IF startswith(lstrip(c), "0 ") THEN type_loop(lines, i + 1, read, acc)
        ELSE IF startswith(c, "RADAR TYPE DATA") THEN type_loop(lines, i + 1, TRUE, acc)
        ELSE IF startswith(c, "END RADAR TYPE DATA") THEN acc
        ELSE LET line == sub_spaces(lstrip(c)) IN
            type_loop(lines, i + 1, read,
                      IF read THEN Append(acc, replace_underscore(line)) ELSE acc)

\* lines 115-134: radar_site before the join with "\n"
read_radar_site(text) == site_loop(splitlines(text), 1, FALSE, <<SITE_HEADER>>)

\* lines 139-157: radar_type before the join with "\n"
read_radar_type(text) == type_loop(splitlines(text), 1, FALSE, <<TYPE_HEADER>>)

(***************************************************************************)
(* Table builder, lines 162-173.  A table is the sequence of its rows, a   *)
(* row a function from column names to cells, a cell a number, nan or      *)
(* [str |-> text].  The texts read here are rows with as many fields as    *)
(* the header (a shorter row is padded with nan, as pandas pads it).       *)
(***************************************************************************)

Digits == <<"0", "1", "2", "3", "4", "5", "6", "7", "8", "9">>

is_digit(ch) == \E k \in 1..10 : Digits[k] = ch
digit_value(ch) == (CHOOSE k \in 1..10 : Digits[k] = ch) - 1

all_digits(s) == \A i \in 1..Len(s) : is_digit(char(s, i))

RECURSIVE digits_value(_, _)
digits_value(s, acc) ==
    IF Len(s) = 0 THEN acc ELSE digits_value(Tail(s), 10 * acc + digit_value(Head(s)))

RECURSIVE pow10(_)
pow10(k) == IF k = 0 THEN 1 ELSE 10 * pow10(k - 1)

\* the decimal literals read_csv infers as int64 or float64: [-]digits[.digits]
is_number(s) ==
    LET body  == IF startswith(s, "-") THEN Tail(s) ELSE s
        parts == split(body, ".")
    IN  /\ Len(parts) \in {1, 2}
        /\ \A k \in 1..Len(parts) : all_digits(parts[k])
        /\ Len(body) > Len(parts) - 1

to_number(s) ==
    LET neg   == startswith(s, "-")
        body  == IF neg THEN Tail(s) ELSE s
        parts == split(body, ".")
        frac  == IF Len(parts) = 2 THEN parts[2] ELSE ""
        mag   == digits_value(parts[1] \o frac, 0)
    IN  Num(IF neg THEN -mag ELSE mag, pow10(Len(frac)))

\* pd.read_csv(io.StringIO(text)) of the lines of text: the first line names the
\* columns, blank lines are skipped, a column is numeric when every value of it is a
\* number (an empty field is nan), and holds strings otherwise.
read_csv(lines) ==
    LET names == split(lines[1], ",")
        rows  == SelectSeq(Tail(lines), LAMBDA l : Len(l) > 0)
        cells == [i \in 1..Len(rows) |-> split(rows[i], ",")]
        field(fr, fk) == IF fk <= Len(cells[fr]) THEN cells[fr][fk] ELSE ""
        numeric(nk) == \A nr \in 1..Len(rows) : field(nr, nk) = "" \/ is_number(field(nr, nk))
        cell(cr, ck) == IF field(cr, ck) = "" THEN NaN
                        ELSE IF numeric(ck) THEN to_number(field(cr, ck))
                        ELSE [str |-> field(cr, ck)]
        col(name) == CHOOSE j \in 1..Len(names) : names[j] = name
    IN  [row \in 1..Len(rows) |->
            [column \in {names[j] : j \in 1..Len(names)} |-> cell(row, col(column))]]

\* index_col="type": the column becomes the index, which the merge drops
drop_column(table, dropped) ==
    [r \in 1..Len(table) |-> [c \in (DOMAIN table[r]) \ {dropped} |-> table[r][c]]]

\* the dtype of a column that holds a value: "number" or "object"
column_kind(table, c) ==
    IF \E r \in 1..Len(table) : IsStr(table[r][c]) THEN "object" ELSE "number"

JoinColumns == {"wavelength", "beamwidth", "Vbeamwidth"}

\* the rows of dfsite.merge(dftype, how="left", on="typetext") for site row i onwards:
\* one row per matching type row, in order, or one row with nan in the type's columns
RECURSIVE merge_rows(_, _, _)
merge_rows(left, right, i) ==
    IF i > Len(left) THEN <<>>
    ELSE LET s == left[i]
             hits == SelectSeq(right, LAMBDA t : t["typetext"] = s["typetext"])
             joined == IF Len(hits) = 0
                       THEN << s @@ [c \in JoinColumns |-> NaN] >>
                       ELSE [h \in 1..Len(hits) |-> s @@ [c \in JoinColumns |-> hits[h][c]]]
         IN  joined \o merge_rows(left, right, i + 1)

\* line 166. pandas refuses to merge a number column with an object column.
merge(left, right) ==
    IF Len(left) > 0 /\ Len(right) > 0
       /\ column_kind(left, "typetext") # column_kind(right, "typetext")
    THEN [raises |-> "ValueError"]
    ELSE [table |-> merge_rows(left, right, 1)]

\* -x and x / 10 of a cell of a numeric column
negate(x) == IF IsNum(x) THEN Num(-x.n, x.d) ELSE x
divide_by_10(x) == IF IsNum(x) THEN Num(x.n, x.d * 10) ELSE x

\* lines 168-170: both operations are a TypeError on a column of strings
transform(table) ==
    IF \E c \in JoinColumns \cup {"site_lat"} : column_kind(table, c) = "object"
    THEN [raises |-> "TypeError"]
    ELSE [table |-> [r \in 1..Len(table) |->
            [c \in DOMAIN table[r] |->
                IF c = "site_lat" THEN negate(table[r][c])
                ELSE IF c \in JoinColumns THEN divide_by_10(table[r][c])
                ELSE table[r][c]]]]

\* line 172: get_frequency_band of each row's wavelength, in row order; the first
\* call that raises ends the apply with its error
RECURSIVE apply_band(_, _, _)
apply_band(table, i, acc) ==
    IF i > Len(table) THEN [table |-> acc]
    ELSE LET b == get_frequency_band(table[i]["wavelength"]) IN
        IF "raises" \in DOMAIN b THEN b
        ELSE apply_band(table, i + 1, Append(acc, table[i] @@ [band |-> [str |-> b.band]]))

\* main, lines 115-136
ParseSite ==
    /\ pc = "parse_site"
    /\ radar_site' = read_radar_site(content)
    /\ pc' = "parse_type"
    /\ UNCHANGED <<fsVars, cuVars, bandVars, histVars, result>>
    /\ UNCHANGED <<content, radar_type, dfsite, dftype, df>>

\* main, lines 139-159
ParseType ==
    /\ pc = "parse_type"
    /\ radar_type' = read_radar_type(content)
    /\ pc' = "read_csv"
    /\ UNCHANGED <<fsVars, cuVars, bandVars, histVars, result>>
    /\ UNCHANGED <<content, radar_site, dfsite, dftype, df>>

(***************************************************************************)
(* Files.                                                                  *)
(***************************************************************************)

NoFile == [exists |-> FALSE]

File(data, mtime) == [data |-> data, mtime |-> mtime]

\* os.path.isfile
isfile(f) == f # NoFile

\* filecmp.cmp(f1, f2) of two regular files, as line 88 calls it (shallow=True):
\* equal stat signatures (size, mtime) are taken as equal files without reading
\* them, different sizes as different files, and only then are the bytes compared
filecmp_cmp(f1, f2) ==
    IF Len(f1.data) = Len(f2.data) /\ f1.mtime = f2.mtime THEN TRUE
    ELSE IF Len(f1.data) # Len(f2.data) THEN FALSE
    ELSE f1.data = f2.data

(***************************************************************************)
(* The responses of URL_SITE_INFO the model fetches: siteinfo.txt texts    *)
(* with one site row and one type row.                                     *)
(***************************************************************************)

SiteInfo(site_rows, type_rows) ==
    "# siteinfo\nRADAR SITE DATA\n" \o site_rows \o "END RADAR SITE DATA\n"
    \o "RADAR TYPE DATA\n" \o type_rows \o "END RADAR TYPE DATA\n"

\* a C band radar: 5.3 cm
DocC == SiteInfo("  2 Melb__ 37 144 44 1 WSR 77\n", "  1 WSR 53 10 10\n")
\* the same site with an X band radar (3.2 cm): as many bytes as DocC
DocX == SiteInfo("  2 Melb__ 37 144 44 1 WSR 77\n", "  1 WSR 32 10 10\n")
\* the site's typetext is in no row of the type table
DocUnmatched == SiteInfo("  2 Melb__ 37 144 44 1 XYZ 77\n", "  1 WSR 53 10 10\n")
\* a wavelength of 999.9 cm: no band
DocBadWave == SiteInfo("  2 Melb__ 37 144 44 1 WSR 77\n", "  1 WSR 9999 10 10\n")
\* a latitude that is no number
DocBadLat == SiteInfo("  2 Melb__ 3x 144 44 1 WSR 77\n", "  1 WSR 53 10 10\n")
\* a numeric typetext in the site table, a text one in the type table
DocNumType == SiteInfo("  2 Melb__ 37 144 44 1 7 77\n", "  1 WSR 53 10 10\n")

Docs == {DocC, DocX, DocUnmatched, DocBadWave, DocBadLat, DocNumType}

\* the clock ticks at most MaxTime times
MaxTime == 2

(***************************************************************************)
(* check_update, lines 62-101.                                             *)
(***************************************************************************)

Ok == [ok |-> TRUE]

\* an exception leaves main
Raise(kind, at) ==
    /\ result' = [raises |-> kind, at |-> at]
    /\ pc' = "idle"

\* main is invoked (line 186)
StartRun ==
    /\ pc = "idle"
    /\ pc' = "fetch"
    /\ result' = None
    /\ fetched' = ""
    /\ updated' = FALSE
    /\ changed' = None
    /\ content' = ""
    /\ radar_site' = <<>>
    /\ radar_type' = <<>>
    /\ dfsite' = <<>>
    /\ dftype' = <<>>
    /\ df' = <<>>
    /\ cache0' = cache
    /\ output0' = output
    /\ cu' = "running"
    /\ UNCHANGED <<fsVars, bandVars>>

\* lines 72-73: the response decodes to a text that is not empty
Fetch ==
    /\ pc = "fetch"
    /\ \E c \in Docs : fetched' = c
    /\ pc' = "isfile"
    /\ UNCHANGED <<fsVars, updated, changed, mainVars, bandVars, histVars, result>>

\* lines 74-75: an empty body
FetchEmpty ==
    /\ pc = "fetch"
    /\ Raise("ValueError", "fetch")
    /\ cu' = "raised"
    /\ UNCHANGED <<fsVars, cuVars, mainVars, bandVars, cache0, output0>>

\* lines 72-73: requests.get or the decoding raises
FetchFail ==
    /\ pc = "fetch"
    /\ Raise("RequestException", "fetch")
    /\ cu' = "raised"
    /\ UNCHANGED <<fsVars, cuVars, mainVars, bandVars, cache0, output0>>

\* line 78
IsFile ==
    /\ pc = "isfile"
    /\ pc' = IF isfile(cache) THEN "tmp_write" ELSE "boot_write"
    /\ UNCHANGED <<fsVars, cuVars, mainVars, bandVars, histVars, result>>

\* lines 79-81: the first run writes the cache file and returns True (a temporary
\* file an earlier run left behind is not looked at)
BootWrite ==
    /\ pc = "boot_write"
    /\ cache' = File(fetched, now)
    /\ changed' = TRUE
    /\ cu' = "returned"
    /\ pc' = "main_check"
    /\ UNCHANGED <<tmp, output, now, fetched, updated, mainVars, bandVars,
                   cache0, output0, result>>

\* lines 83-87
TmpWrite ==
    /\ pc = "tmp_write"
    /\ tmp' = File(fetched, now)
    /\ updated' = FALSE
    /\ pc' = "cmp"
    /\ UNCHANGED <<cache, output, now, fetched, changed, mainVars, bandVars,
                   histVars, result>>

\* lines 88-89
Cmp ==
    /\ pc = "cmp"
    /\ IF ~filecmp_cmp(cache, tmp)
       THEN updated' = TRUE /\ pc' = "remove_old"
       ELSE updated' = updated /\ pc' = "cleanup"
    /\ UNCHANGED <<fsVars, fetched, changed, mainVars, bandVars, histVars, result>>

\* line 88: os.stat or the reading of a file raises
CmpFail ==
    /\ pc = "cmp"
    /\ Raise("OSError", "cmp")
    /\ cu' = "raised"
    /\ UNCHANGED <<fsVars, cuVars, mainVars, bandVars, cache0, output0>>

\* line 92
RemoveOld ==
    /\ pc = "remove_old"
    /\ cache' = NoFile
    /\ pc' = "rename"
    /\ UNCHANGED <<tmp, output, now, cuVars, mainVars, bandVars, histVars, result>>

\* line 92: os.remove raises
RemoveOldFail ==
    /\ pc = "remove_old"
    /\ Raise("OSError", "remove_old")
    /\ cu' = "raised"
    /\ UNCHANGED <<fsVars, cuVars, mainVars, bandVars, cache0, output0>>

\* line 94
Rename ==
    /\ pc = "rename"
    /\ cache' = tmp
    /\ tmp' = NoFile
    /\ pc' = "cleanup"
    /\ UNCHANGED <<output, now, cuVars, mainVars, bandVars, histVars, result>>

\* line 94: os.rename raises
RenameFail ==
    /\ pc = "rename"
    /\ Raise("OSError", "rename")
    /\ cu' = "raised"
    /\ UNCHANGED <<fsVars, cuVars, mainVars, bandVars, cache0, output0>>

\* lines 96-101: the temporary file is removed, or is not there and the
\* FileNotFoundError is passed over; check_update returns updated
Cleanup ==
    /\ pc = "cleanup"
    /\ tmp' = NoFile
    /\ changed' = updated
    /\ cu' = "returned"
    /\ pc' = "main_check"
    /\ UNCHANGED <<cache, output, now, fetched, updated, mainVars, bandVars,
                   cache0, output0, result>>

(***************************************************************************)
(* main, lines 104-178 (the two parser passes are ParseSite and ParseType) *)
(***************************************************************************)

\* lines 106-108 with the early return left out: every run rebuilds
MainCheck_always_rebuilds ==
    /\ pc = "main_check"
    /\ pc' = "read_cache"
    /\ UNCHANGED <<fsVars, cuVars, mainVars, bandVars, histVars, result>>

\* lines 106-108: nothing to do when nothing changed and the output is there
MainCheck ==
    /\ pc = "main_check"
    /\ IF ~changed /\ isfile(output)
       THEN result' = Ok /\ pc' = "idle"
       ELSE result' = result /\ pc' = "read_cache"
    /\ UNCHANGED <<fsVars, cuVars, mainVars, bandVars, histVars>>

\* lines 111-112
ReadCache ==
    /\ pc = "read_cache"
    /\ content' = cache.data
    /\ pc' = "parse_site"
    /\ UNCHANGED <<fsVars, cuVars, radar_site, radar_type, dfsite, dftype, df,
                   bandVars, histVars, result>>

\* lines 162-163
ReadCsv ==
    /\ pc = "read_csv"
    /\ dfsite' = read_csv(radar_site)
    /\ dftype' = drop_column(read_csv(radar_type), "type")
    /\ pc' = "merge"
    /\ UNCHANGED <<fsVars, cuVars, content, radar_site, radar_type, df,
                   bandVars, histVars, result>>

\* line 166
Merge ==
    /\ pc = "merge"
    /\ LET m == merge(dfsite, dftype) IN
        IF "raises" \in DOMAIN m
        THEN Raise(m.raises, "merge") /\ df' = df
        ELSE df' = m.table /\ pc' = "transform" /\ result' = result
    /\ UNCHANGED <<fsVars, cuVars, content, radar_site, radar_type, dfsite, dftype,
                   bandVars, histVars>>

\* lines 168-170
Transform ==
    /\ pc = "transform"
    /\ LET t == transform(df) IN
        IF "raises" \in DOMAIN t
        THEN Raise(t.raises, "transform") /\ df' = df
        ELSE df' = t.table /\ pc' = "band" /\ result' = result
    /\ UNCHANGED <<fsVars, cuVars, content, radar_site, radar_type, dfsite, dftype,
                   bandVars, histVars>>

\* lines 172-174 with the table written before its bands are computed
Band_after_write ==
    /\ pc = "band"
    /\ output' = [table |-> df]
    /\ LET b == apply_band(df, 1, <<>>) IN
        IF "raises" \in DOMAIN b
        THEN Raise(b.raises, "band") /\ df' = df
        ELSE df' = b.table /\ pc' = "write" /\ result' = result
    /\ UNCHANGED <<cache, tmp, now, cuVars, content, radar_site, radar_type, dfsite,
                   dftype, bandVars, histVars>>

\* line 172
Band ==
    /\ pc = "band"
    /\ LET b == apply_band(df, 1, <<>>) IN
        IF "raises" \in DOMAIN b
        THEN Raise(b.raises, "band") /\ df' = df
        ELSE df' = b.table /\ pc' = "write" /\ result' = result
    /\ UNCHANGED <<fsVars, cuVars, content, radar_site, radar_type, dfsite, dftype,
                   bandVars, histVars>>

\* lines 173-178: the table, with id as its index, is written and main returns
Write ==
    /\ pc = "write"
    /\ output' = [table |-> df]
    /\ result' = Ok
    /\ pc' = "idle"
    /\ UNCHANGED <<cache, tmp, now, cuVars, mainVars, bandVars, histVars>>

\* line 174: to_csv has opened (and so emptied) the file and raises before the
\* table is written whole
WriteFail ==
    /\ pc = "write"
    /\ output' = [partial |-> TRUE]
    /\ Raise("OSError", "write")
    /\ UNCHANGED <<cache, tmp, now, cuVars, mainVars, bandVars, histVars>>

\* time passes between two runs
Tick ==
    /\ pc = "idle"
    /\ now < MaxTime
    /\ now' = now + 1
    /\ UNCHANGED <<cache, tmp, output, cuVars, mainVars, bandVars, histVars, pc, result>>

(***************************************************************************)
(* The pipeline: runs of main, one after the other, on a configuration     *)
(* directory that starts empty.                                            *)
(***************************************************************************)

IdleRun ==
    /\ fetched = ""
    /\ updated = FALSE
    /\ changed = None
    /\ radar_site = <<>>
    /\ radar_type = <<>>
    /\ dfsite = <<>>
    /\ dftype = <<>>
    /\ df = <<>>
    /\ result = None
    /\ cu = "none"

NoFiles ==
    /\ cache = NoFile
    /\ tmp = NoFile
    /\ output = NoFile
    /\ now = 0
    /\ cache0 = NoFile
    /\ output0 = NoFile

Init ==
    /\ NoFiles
    /\ IdleRun
    /\ content = ""
    /\ wavelength = None
    /\ band = None
    /\ pc = "idle"

Next ==
    \/ StartRun \/ Fetch \/ FetchEmpty \/ FetchFail \/ IsFile \/ BootWrite
    \/ TmpWrite \/ Cmp \/ CmpFail \/ RemoveOld \/ RemoveOldFail \/ Rename
    \/ RenameFail \/ Cleanup \/ MainCheck \/ ReadCache \/ ParseSite \/ ParseType
    \/ ReadCsv \/ Merge \/ Transform \/ Band \/ Write \/ WriteFail \/ Tick

Spec == Init /\ [][Next]_vars

(***************************************************************************)
(* The block parser on its own: every text of at most MaxLines lines drawn *)
(* from ParserLines is parsed by the two passes.                           *)
(***************************************************************************)

MaxLines == 4

ParserLines ==
    { "RADAR SITE DATA", "END RADAR SITE DATA",
      "RADAR TYPE DATA", "END RADAR TYPE DATA",
      "  3   A_B   12.3", "0 3 ABC 12.3", "# c", "" }

RECURSIVE join_lines(_)
join_lines(ls) == IF Len(ls) = 0 THEN "" ELSE Head(ls) \o "\n" \o join_lines(Tail(ls))

ParserTexts ==
    { join_lines(ls) : ls \in UNION { [1..n -> ParserLines] : n \in 0..MaxLines } }

InitParse ==
    /\ NoFiles
    /\ IdleRun
    /\ wavelength = None
    /\ band = None
    /\ \E text \in ParserTexts : content = text
    /\ pc = "parse_site"

NextParse == ParseSite \/ ParseType

SpecParse == InitParse /\ [][NextParse]_vars

(***************************************************************************)
(* get_frequency_band on its own: every wavelength n/d cm with             *)
(* -MaxNum <= n <= MaxNum and 1 <= d <= MaxDen, and nan.                   *)
(***************************************************************************)

MaxNum == 31
MaxDen == 12

Wavelengths ==
    { Num(n, d) : n \in (-MaxNum)..MaxNum, d \in 1..MaxDen } \cup {NaN}

InitBand ==
    /\ NoFiles
    /\ IdleRun
    /\ content = ""
    /\ wavelength \in Wavelengths
    /\ band = None
    /\ pc = "call"

\* get_frequency_band(wavelength) returns a band
BandReturn ==
    /\ pc = "call"
    /\ "band" \in DOMAIN get_frequency_band(wavelength)
    /\ band' = get_frequency_band(wavelength)
    /\ pc' = "returned"
    /\ UNCHANGED <<fsVars, cuVars, mainVars, histVars, wavelength, result>>

\* get_frequency_band(wavelength) raises
BandRaise ==
    /\ pc = "call"
    /\ "raises" \in DOMAIN get_frequency_band(wavelength)
    /\ band' = get_frequency_band(wavelength)
    /\ pc' = "raised"
    /\ UNCHANGED <<fsVars, cuVars, mainVars, histVars, wavelength, result>>

NextBand == BandReturn \/ BandRaise

SpecBand == InitBand /\ [][NextBand]_vars

(***************************************************************************)
(* Properties of the pipeline (specification Spec).                        *)
(***************************************************************************)

\* a table that was written whole
IsTable(f) == "table" \in DOMAIN f

Raised == "raises" \in DOMAIN result

\* C1: a check_update call that returns normally returns true exactly when the
\* cache file was absent or differed byte for byte from the fetched content, and on
\* return the cache file holds exactly the fetched content.
C1_ReturnsChangeAndCaches ==
    cu = "returned" =>
        /\ changed = (IF isfile(cache0) THEN cache0.data # fetched ELSE TRUE)
        /\ isfile(cache)
        /\ cache.data = fetched

\* C2: when check_update reports no change and the output file already exists, the
\* run performs no parse, no build and no write: it ends at the early return with
\* the output file and the cache file as they were when the run started.
C2_ShortCircuitTouchesNothing ==
    (cu = "returned" /\ changed = FALSE /\ isfile(output0)) =>
        /\ pc \in {"main_check", "idle"}
        /\ pc = "idle" => result = Ok
        /\ output = output0
        /\ cache = cache0
        /\ content = "" /\ radar_site = <<>> /\ radar_type = <<>>
        /\ dfsite = <<>> /\ dftype = <<>> /\ df = <<>>

\* C2's case: a run that took the early return of line 108 over an output file
C2_Witness ==
    /\ pc = "idle" /\ result = Ok
    /\ cu = "returned" /\ changed = FALSE
    /\ IsTable(output0) /\ isfile(cache0)

\* C3: on every exit path of check_update, a return or an error, the temporary file
\* tmp_test.txt does not exist once check_update has exited.
C3_NoDanglingTemp == cu \in {"returned", "raised"} => tmp = NoFile

\* C4: once a cache file exists, at every step of a later check_update call (and so
\* also if the call stops there) the cache file exists and holds in full the
\* previously cached content or the newly fetched content.
C4_CacheNeverAbsent ==
    (cu \in {"running", "returned", "raised"} /\ isfile(cache0)) =>
        /\ isfile(cache)
        /\ cache.data \in {cache0.data, fetched}

\* C5: a run that fails in the fetch, the parsing, the join or the band
\* classification writes nothing to the output file: the file is as it was when
\* the run started, and it differs from that only once line 174 has run.
C5_FailedRunWritesNothing ==
    /\ (Raised /\ result.at # "write") => output = output0
    /\ output # output0 => (pc = "idle" /\ (result = Ok \/ (Raised /\ result.at = "write")))

\* C5's case: the band classification failed in a run over an output file
C5_Witness ==
    /\ pc = "idle" /\ Raised /\ result.at = "band"
    /\ IsTable(output0) /\ output = output0
    /\ cache # cache0

\* the site rows whose typetext is in no row of the type table
UnmatchedSites ==
    {i \in 1..Len(dfsite) : \A j \in 1..Len(dftype) :
        dftype[j]["typetext"] # dfsite[i]["typetext"]}

\* C9: a site row whose typetext matches no row of the type table is kept by the
\* build: the build completes and the output file holds that site's row with
\* wavelength, beamwidth and Vbeamwidth empty.
C9_UnmatchedSiteKept ==
    (pc = "idle" /\ Len(df) > 0 /\ UnmatchedSites # {}) =>
        /\ result = Ok
        /\ IsTable(output)
        /\ \A i \in UnmatchedSites : \E r \in 1..Len(output.table) :
            /\ output.table[r]["id"] = dfsite[i]["id"]
            /\ \A c \in JoinColumns : output.table[r][c] = NaN

\* the output file main writes from a cache file holding text, None when the build
\* raises
BuiltFrom(text) ==
    LET m == merge(read_csv(read_radar_site(text)),
                   drop_column(read_csv(read_radar_type(text)), "type"))
        t == transform(m.table)
        b == apply_band(t.table, 1, <<>>)
    IN  IF "raises" \in DOMAIN m THEN None
        ELSE IF "raises" \in DOMAIN t THEN None
        ELSE IF "raises" \in DOMAIN b THEN None
        ELSE [table |-> b.table]

\* C10: every run that ends without error leaves an output file that is the table
\* built from the current cache content (stated for an output file that was written
\* whole): a later run never takes the early return over an output file built from
\* older cache content.
C10_SuccessMeansFreshOutput ==
    (pc = "idle" /\ result = Ok /\ IsTable(output)) => output = BuiltFrom(cache.data)

(***************************************************************************)
(* Properties of get_frequency_band (specification SpecBand).  The         *)
(* frequency is the value ghz the function computes from its argument.     *)
(***************************************************************************)

Called == pc \in {"returned", "raised"}

\* the frequency of a positive wavelength is within [lo, hi] GHz: 30 / (n/d) GHz
FrequencyWithin(w, lo, hi) ==
    IsNum(w) /\ w.n > 0 /\ 30 * w.d >= lo * w.n /\ 30 * w.d <= hi * w.n

\* the rows of the table whose range [min, max] contains the frequency of w
BandsContaining(w) ==
    {i \in 1..Len(ieee_freq_band_ghz) :
        FrequencyWithin(w, ieee_freq_band_ghz[i][2], ieee_freq_band_ghz[i][3])}

\* the values at which one band's range ends and the next one's starts
SharedEdges == {ieee_freq_band_ghz[i][3] : i \in 1..(Len(ieee_freq_band_ghz) - 1)}

AtSharedEdge(w) == \E e \in SharedEdges : FrequencyWithin(w, e, e)

\* C7 as stated: for every wavelength whose frequency is within [1, 110] GHz,
\* exactly one band has a range that contains it, also at the shared edge values,
\* and get_frequency_band returns that band.
C7_ExactlyOneBand ==
    (Called /\ FrequencyWithin(wavelength, 1, 110)) =>
        \E i \in 1..Len(ieee_freq_band_ghz) :
            /\ BandsContaining(wavelength) = {i}
            /\ band = [band |-> ieee_freq_band_ghz[i][1]]

\* C7 as amended: for every wavelength whose frequency is within [1, 110] GHz, at
\* least one band has a range that contains it; exactly one, unless the frequency
\* is one of the shared edge values 2, 4, 8, 12, 18, 27, 40, 75, which the two
\* adjacent bands both contain; get_frequency_band returns the first band in table
\* order that contains it (at a shared edge, the lower band).
C7_FirstBandInTableOrder ==
    (Called /\ FrequencyWithin(wavelength, 1, 110)) =>
        \E i \in BandsContaining(wavelength) :
            /\ \A j \in BandsContaining(wavelength) : i <= j
            /\ band = [band |-> ieee_freq_band_ghz[i][1]]
            /\ BandsContaining(wavelength) =
                   IF AtSharedEdge(wavelength) THEN {i, i + 1} ELSE {i}

\* C7's case: a computed frequency of exactly 2 GHz, the edge L and S share, for
\* which L is returned
C7_Witness ==
    /\ pc = "returned"
    /\ wavelength = Num(15, 1)
    /\ BandsContaining(wavelength) = {1, 2}
    /\ band = [band |-> "L"]

\* what C8 calls invalid: a missing value (nan), a wavelength that is not positive,
\* or a frequency below 1 GHz or above 110 GHz
InvalidWavelength(w) ==
    \/ IsNaN(w)
    \/ IsNum(w) /\ w.n <= 0
    \/ IsNum(w) /\ w.n > 0 /\ ~FrequencyWithin(w, 1, 110)

\* C8: get_frequency_band returns no band and fails with the ValueError "Invalid
\* radar wavelength" for every wavelength whose frequency is below 1 GHz or above
\* 110 GHz and for every zero, negative or missing wavelength; no other kind of
\* error is raised.
C8_InvalidWavelengthError ==
    (Called /\ InvalidWavelength(wavelength)) => band = [raises |-> "ValueError"]

(***************************************************************************)
(* Properties of the block parser (specification SpecParse).               *)
(***************************************************************************)

Parsed == pc = "read_csv"

IsSkipped(c) == Len(c) <= 1 \/ startswith(c, "#") \/ startswith(lstrip(c), "0 ")

\* the first line of lines that starts with marker, Len(lines) + 1 when none does
FirstLine(lines, marker) ==
    LET at == {i \in 1..Len(lines) : startswith(lines[i], marker)}
    IN  IF at = {} THEN Len(lines) + 1 ELSE CHOOSE i \in at : \A j \in at : i <= j

\* the lines after the first start marker line and before the first end marker line
Inside(lines, start, end) ==
    {i \in 1..Len(lines) : FirstLine(lines, start) < i /\ i < FirstLine(lines, end)}

\* the lines numbered in keep, in input order
RECURSIVE Kept(_, _, _)
Kept(lines, keep, i) ==
    IF i > Len(lines) THEN <<>>
    ELSE (IF i \in keep THEN <<lines[i]>> ELSE <<>>) \o Kept(lines, keep, i + 1)

SiteRecord(c) == sub_underscores(sub_spaces(lstrip(c)))
TypeRecord(c) == replace_underscore(sub_spaces(lstrip(c)))

Records(table) == Tail(table)

\* the lines of a section: after its first start marker line and before the first
\* end marker line, not skipped, and no start marker line of the section
SectionLines(lines, start, end) ==
    {i \in Inside(lines, start, end) : ~IsSkipped(lines[i]) /\ ~startswith(lines[i], start)}

\* C6 as stated: the records of each section are, in input order, the normalized
\* forms of the lines after its start marker line and before its first end marker
\* line that are not skipped; lines before the start marker, after the end marker
\* or inside the other section yield no record.
C6_RecordsBetweenMarkers ==
    Parsed =>
        LET lines == splitlines(content)
            site == SectionLines(lines, "RADAR SITE DATA", "END RADAR SITE DATA")
            type == SectionLines(lines, "RADAR TYPE DATA", "END RADAR TYPE DATA")
            site_kept == Kept(lines, site, 1)
            type_kept == Kept(lines, type, 1)
        IN  /\ Records(radar_site) = [k \in 1..Len(site_kept) |-> SiteRecord(site_kept[k])]
            /\ Records(radar_type) = [k \in 1..Len(type_kept) |-> TypeRecord(type_kept[k])]
            /\ site \cap Inside(lines, "RADAR TYPE DATA", "END RADAR TYPE DATA") = {}
            /\ type \cap Inside(lines, "RADAR SITE DATA", "END RADAR SITE DATA") = {}

\* C6 as amended: the records of each section are, in input order, the normalized
\* forms of the lines after its first start marker line and before the first end
\* marker line of the text that are not skipped and are not start marker lines of
\* the section; no other line yields a record (none at all when the end marker
\* comes first). A line inside the other section yields no record only when it
\* lies outside this section's markers.
C6_RecordsBetweenFirstMarkers ==
    Parsed =>
        LET lines == splitlines(content)
            site == SectionLines(lines, "RADAR SITE DATA", "END RADAR SITE DATA")
            type == SectionLines(lines, "RADAR TYPE DATA", "END RADAR TYPE DATA")
            site_kept == Kept(lines, site, 1)
            type_kept == Kept(lines, type, 1)
        IN  /\ Records(radar_site) = [k \in 1..Len(site_kept) |-> SiteRecord(site_kept[k])]
            /\ Records(radar_type) = [k \in 1..Len(type_kept) |-> TypeRecord(type_kept[k])]

\* C6's case: a data line inside the site section and the same line after its end
C6_Witness ==
    /\ Parsed
    /\ splitlines(content) = <<"RADAR SITE DATA", "  3   A_B   12.3",
                               "END RADAR SITE DATA", "  3   A_B   12.3">>
    /\ radar_site = <<SITE_HEADER, "3,AB,12.3">>
    /\ radar_type = <<TYPE_HEADER>>

====
